---- MODULE Spec2Model ----
(***************************************************************************)
(* A model of the Dev cog (src/dev/__init__.py): the text pager `pagify`,  *)
(* the token sanitizer, the interactive delivery `send_interactive`, and   *)
(* the debug / eval / repl / pause commands with the per-channel session   *)
(* registry.  Texts are sequences of one-character strings.  Coroutines    *)
(* are modelled with one action per stretch of code between two awaits.    *)
(***************************************************************************)
EXTENDS Integers, Sequences, FiniteSets, TLC

VARIABLES
    \* ---- pagify (one generator run) ----
    text,         \* the `text` argument
    delims,       \* the `delims` argument: a list of delimiter strings
    priority,     \* the `priority` argument
    page_length,  \* page_length after `page_length -= shorten_by`
    in_text,      \* the text not yet consumed
    pages,        \* the pages yielded so far, in order
    slices,       \* history: every non-empty to_send / final in_text cut
                  \* off the text so far, yielded or not
    pg_pc,        \* "loop" | "done" | "raised" | "off"
    \* ---- sanitize_output (one call) ----
    token,        \* ctx.bot.http.token
    input_,       \* the `input_` argument
    san_out,      \* the returned string
    san_pc,       \* "call" | "done" | "off"
    \* ---- send_interactive (one call) ----
    si_author,    \* ctx.author.id
    si_channel,   \* ctx.channel.id
    si_messages,  \* tuple(messages)
    si_box_lang,  \* None or a language
    si_idx,       \* idx of the enumerate loop (1-based)
    si_ret,       \* ret: the handles of the pages sent
    si_query,     \* query: the handle of the last prompt sent
    si_resp,      \* resp: the message that ended the last wait
    si_log,       \* history: what the call sent and what ended its waits
    si_deleted,   \* the messages deleted by the call (positions in si_log)
    si_pc,        \* the await the call is suspended at, "done", "raised", "off"
    \* ---- the cog: Dev and the command invocations running on it ----
    sessions,     \* self.sessions: channel id -> True (running) / False (paused)
    last_result,  \* self._last_result
    procs,        \* the command invocations (coroutines), each at an await
    \* ---- Dev.maybe_await (one call) ----
    ma_arg,       \* the argument
    ma_coro,      \* `coro`
    ma_i,         \* i of `for i in range(2)`
    ma_awaits,    \* history: how many times the call has awaited
    ma_pc         \* "test" | "await" | "done" | "off"

pgVars == <<text, delims, priority, page_length, in_text, pages, slices, pg_pc>>
sanVars == <<token, input_, san_out, san_pc>>

siVars == <<si_author, si_channel, si_messages, si_box_lang, si_idx, si_ret,
            si_query, si_resp, si_log, si_deleted, si_pc>>

devVars == <<sessions, last_result, procs>>

maVars == <<ma_arg, ma_coro, ma_i, ma_awaits, ma_pc>>

vars == <<pgVars, sanVars, siVars, devVars, maVars>>

\* What the actions of one component leave alone
notPg == <<sanVars, siVars, devVars, maVars>>
notSan == <<pgVars, siVars, devVars, maVars>>
notSi == <<pgVars, sanVars, devVars, maVars>>
notDev == <<pgVars, sanVars, siVars, maVars>>
notMa == <<pgVars, sanVars, siVars, devVars>>

----------------------------------------------------------------------------
(* Python string primitives on sequences of characters *)

NL == "\n"
SP == " "
\* The backtick character (a TLA+ string cannot hold one)
BACKTICK == "<backtick>"

\* str.isspace for the characters of the model
Whitespace == {SP, NL}

SetMax(S) == CHOOSE x \in S : \A y \in S : y <= x

RECURSIVE lstrip(_)
lstrip(s) ==
    IF s = <<>> THEN s
    ELSE IF Head(s) \in Whitespace THEN lstrip(Tail(s)) ELSE s

RECURSIVE rstrip(_)
rstrip(s) ==
    IF s = <<>> THEN s
    ELSE IF s[Len(s)] \in Whitespace THEN rstrip(SubSeq(s, 1, Len(s) - 1)) ELSE s

\* str.strip() with no argument
strip(s) == rstrip(lstrip(s))

\* A slice bound as Python normalises it: negative counts from the end,
\* and the result is clipped to 0..n.
SliceIndex(i, n) ==
    IF i < 0 THEN (IF n + i < 0 THEN 0 ELSE n + i)
    ELSE IF i > n THEN n ELSE i

\* s[:k]
SliceTo(s, k) == SubSeq(s, 1, SliceIndex(k, Len(s)))

\* A remainder that starts one character after the split point
SliceFromSkipping(s, k) == SubSeq(s, SliceIndex(k, Len(s)) + 2, Len(s))

\* s[k:]
SliceFrom(s, k) == SubSeq(s, SliceIndex(k, Len(s)) + 1, Len(s))

\* The lowest index where s.rfind gives the highest
lfind(s, sub, start, end) ==
    LET n == Len(s)
        lo == IF start < 0 THEN (IF n + start < 0 THEN 0 ELSE n + start) ELSE start
        hi == SliceIndex(end, n)
        m == Len(sub)
        cands == {i \in lo..(hi - m) : SubSeq(s, i + 1, i + m) = sub}
    IN IF cands = {} THEN -1 ELSE CHOOSE i \in cands : \A j \in cands : i <= j

\* s.rfind(sub, start, end): the highest 0-based index i with
\* start <= i, i + len(sub) <= end and s[i:i+len(sub)] == sub, else -1.
rfind(s, sub, start, end) ==
    LET n == Len(s)
        lo == IF start < 0 THEN (IF n + start < 0 THEN 0 ELSE n + start) ELSE start
        hi == SliceIndex(end, n)
        m == Len(sub)
        cands == {i \in lo..(hi - m) : SubSeq(s, i + 1, i + m) = sub}
    IN IF cands = {} THEN -1 ELSE SetMax(cands)

\* str.lower(), character by character
UpperCase == <<"A", "B", "C", "D", "E", "F", "G", "H", "I", "J", "K", "L", "M",
               "N", "O", "P", "Q", "R", "S", "T", "U", "V", "W", "X", "Y", "Z">>
LowerCase == <<"a", "b", "c", "d", "e", "f", "g", "h", "i", "j", "k", "l", "m",
               "n", "o", "p", "q", "r", "s", "t", "u", "v", "w", "x", "y", "z">>

LowerChar(c) ==
    IF \E k \in 1..Len(UpperCase) : UpperCase[k] = c
    THEN LowerCase[CHOOSE k \in 1..Len(UpperCase) : UpperCase[k] = c]
    ELSE c

lower(s) == [i \in 1..Len(s) |-> LowerChar(s[i])]

----------------------------------------------------------------------------
(* pagify *)

\* The bounds of the pager's inputs
MaxLen == 4
MaxPageLength == 3
PgChars == {"a", SP, NL}
ShortenBys == {0, 1}
DelimLists == {<<<<NL>>>>, <<<<NL>>, <<SP>>>>, <<<<SP>>, <<NL>>>>, <<<<"a", SP>>>>, <<>>}

RECURSIVE SeqsUpTo(_, _)
SeqsUpTo(S, n) ==
    IF n = 0 THEN {<<>>}
    ELSE LET shorter == SeqsUpTo(S, n - 1)
         IN shorter \cup {Append(s, c) : s \in {t \in shorter : Len(t) = n - 1}, c \in S}

PgTexts == SeqsUpTo(PgChars, MaxLen)

\* Two calls with longer texts: "line1\nline2\nline3" cut at newlines with
\* limit 12, and "abcdefghij" cut at spaces with limit 5
Line(n) == <<"l", "i", "n", "e", n>>
ThreeLines == Line("1") \o <<NL>> \o Line("2") \o <<NL>> \o Line("3")
TenLetters == <<"a", "b", "c", "d", "e", "f", "g", "h", "i", "j">>
PgCalls ==
    {[text |-> ThreeLines, delims |-> <<<<NL>>>>, priority |-> TRUE, limit |-> 12],
     [text |-> TenLetters, delims |-> <<<<SP>>>>, priority |-> FALSE, limit |-> 5]}

\* (in_text.rfind(d, 1, this_page_len) for d in delims), as a list
DelimIndexes(s, ds, this_page_len) ==
    [k \in 1..Len(ds) |-> rfind(s, ds[k], 1, this_page_len)]

\* next((x for x in closest_delim if x > 0), -1)
FirstPositive(xs) ==
    LET ks == {k \in 1..Len(xs) : xs[k] > 0}
    IN IF ks = {} THEN -1 ELSE xs[CHOOSE k \in ks : \A j \in ks : k <= j]

\* max(closest_delim); defined for a non-empty list only
MaxOf(xs) == SetMax({xs[k] : k \in 1..Len(xs)})

\* max() of an empty generator raises ValueError
PagifyRaises(ds, prio) == ~prio /\ Len(ds) = 0

\* A hard cutoff one character past the limit
ClosestDelimPastLimit(s, ds, prio, this_page_len) ==
    LET xs == DelimIndexes(s, ds, this_page_len)
        c == IF prio THEN FirstPositive(xs) ELSE MaxOf(xs)
    IN IF c # -1 THEN c ELSE this_page_len + 1

\* A search that starts at index 0, so that a delimiter at the very front
\* of the text is a split point
ClosestDelimFromZero(s, ds, prio, this_page_len) ==
    LET xs == [k \in 1..Len(ds) |-> rfind(s, ds[k], 0, this_page_len)]
        ks == {k \in 1..Len(xs) : xs[k] >= 0}
        c == IF prio
             THEN (IF ks = {} THEN -1 ELSE xs[CHOOSE k \in ks : \A j \in ks : k <= j])
             ELSE MaxOf(xs)
    IN IF c # -1 THEN c ELSE this_page_len

\* closest_delim after line 64
ClosestDelim(s, ds, prio, this_page_len) ==
    LET xs == DelimIndexes(s, ds, this_page_len)
        c == IF prio THEN FirstPositive(xs) ELSE MaxOf(xs)
    IN IF c # -1 THEN c ELSE this_page_len

\* `if len(to_send.strip()) > 0: yield to_send`
Yielded(s) == Len(strip(s)) > 0

PgOff ==
    /\ text = <<>>
    /\ delims = <<>>
    /\ priority = FALSE
    /\ page_length = 0
    /\ in_text = <<>>
    /\ pages = <<>>
    /\ slices = <<>>
    /\ pg_pc = "off"

PagifyInit ==
    /\ \/ /\ text \in PgTexts
          /\ delims \in DelimLists
          /\ priority \in BOOLEAN
          /\ \E L \in 0..MaxPageLength, S \in ShortenBys : page_length = L - S
       \/ \E call \in PgCalls :
              /\ text = call.text
              /\ delims = call.delims
              /\ priority = call.priority
              /\ page_length = call.limit
    /\ in_text = text
    /\ pages = <<>>
    /\ slices = <<>>
    /\ pg_pc = "loop"

\* One iteration of `while len(in_text) > page_length`
PagifyIter ==
    /\ pg_pc = "loop"
    /\ Len(in_text) > page_length
    /\ ~PagifyRaises(delims, priority)
    /\ LET closest_delim == ClosestDelim(in_text, delims, priority, page_length)
           to_send == SliceTo(in_text, closest_delim)
       IN /\ pages' = IF Yielded(to_send) THEN Append(pages, to_send) ELSE pages
          /\ slices' = IF to_send = <<>> THEN slices ELSE Append(slices, to_send)
          /\ in_text' = SliceFrom(in_text, closest_delim)
    /\ UNCHANGED <<text, delims, priority, page_length, pg_pc>>
    /\ UNCHANGED notPg

\* The iteration in which max() of no delimiter raises ValueError
PagifyRaise ==
    /\ pg_pc = "loop"
    /\ Len(in_text) > page_length
    /\ PagifyRaises(delims, priority)
    /\ pg_pc' = "raised"
    /\ UNCHANGED <<text, delims, priority, page_length, in_text, pages, slices>>
    /\ UNCHANGED notPg

\* Leaving the loop: the last page
PagifyTail ==
    /\ pg_pc = "loop"
    /\ ~(Len(in_text) > page_length)
    /\ pages' = IF Yielded(in_text) THEN Append(pages, in_text) ELSE pages
    /\ slices' = IF in_text = <<>> THEN slices ELSE Append(slices, in_text)
    /\ pg_pc' = "done"
    /\ UNCHANGED <<text, delims, priority, page_length, in_text>>
    /\ UNCHANGED notPg

PagifyNext == PagifyIter \/ PagifyRaise \/ PagifyTail

----------------------------------------------------------------------------
(* sanitize_output *)

\* re.I, handed to re.sub as its fourth positional parameter, `count`
RE_I == 2

EXPUNGED == <<"[", "E", "X", "P", "U", "N", "G", "E", "D", "]">>

IsPrefix(p, s) == Len(p) <= Len(s) /\ SubSeq(s, 1, Len(p)) = p

\* re.sub(re.escape(pat), repl, s, count) for a non-empty literal pat:
\* the leftmost non-overlapping occurrences of pat, matched exactly, are
\* replaced, at most `count` of them when count > 0 and all when count = 0.
RECURSIVE re_sub_from(_, _, _, _, _)
re_sub_from(pat, repl, s, count, n) ==
    IF s = <<>> THEN <<>>
    ELSE IF count > 0 /\ n >= count THEN s
    ELSE IF IsPrefix(pat, s)
         THEN repl \o re_sub_from(pat, repl, SubSeq(s, Len(pat) + 1, Len(s)), count, n + 1)
         ELSE <<Head(s)>> \o re_sub_from(pat, repl, Tail(s), count, n)

re_sub(pat, repl, s, count) == re_sub_from(pat, repl, s, count, 0)

\* Dev.sanitize_output with ctx.bot.http.token = tok
sanitize_output(tok, s) == re_sub(tok, EXPUNGED, s, RE_I)

MaxOutLen == 4
MaxTokenLen == 2
SanChars == {"k", "K", "="}
SanTokens == SeqsUpTo({"k", "K"}, MaxTokenLen) \ {<<>>}
SanTexts == SeqsUpTo(SanChars, MaxOutLen)

SanOff ==
    /\ token = <<>>
    /\ input_ = <<>>
    /\ san_out = <<>>
    /\ san_pc = "off"

SanitizeInit ==
    /\ token \in SanTokens
    /\ input_ \in SanTexts
    /\ san_out = <<>>
    /\ san_pc = "call"

SanitizeCall ==
    /\ san_pc = "call"
    /\ san_out' = sanitize_output(token, input_)
    /\ san_pc' = "done"
    /\ UNCHANGED <<token, input_>>
    /\ UNCHANGED notSan

----------------------------------------------------------------------------
(* send_interactive *)

\* Optional values: None, or a value that is present
None == <<>>
Some(x) == <<x>>

Authors == {1, 2}
Channels == {1, 2}

MaxPages == 3
SiPageTexts == {<<"a">>, <<"b">>}
SiPageLists == SeqsUpTo(SiPageTexts, MaxPages)
PY == <<"p", "y">>
MORE == <<"m", "o", "r", "e">>
SiContents == {MORE, <<"M", "O", "R", "E">>, <<"M", "o", "r", "e">>,
               <<"m", "o", "r", "e", "!">>, <<"n", "o">>}

FENCE == <<BACKTICK, BACKTICK, BACKTICK>>

\* page, or f"```{box_lang}\n{page}\n```"
Rendered(page, box_lang) ==
    IF box_lang = None THEN page
    ELSE FENCE \o box_lang[1] \o <<NL>> \o page \o <<NL>> \o FENCE

\* The prompt "There {is_are} still {n_remaining} message{plural} remaining.
\* Type `more` to continue."
Query(n_remaining) ==
    [n_remaining |-> n_remaining,
     is_are |-> IF n_remaining = 1 THEN "is" ELSE "are",
     plural |-> IF n_remaining = 1 THEN "" ELSE "s"]

\* A check that accepts `more` from any author
predicateAnyAuthor(author, channel, content) ==
    /\ si_channel = channel
    /\ lower(content) = MORE

\* The check handed to wait_for
predicate(author, channel, content) ==
    /\ si_author = author
    /\ si_channel = channel
    /\ lower(content) = MORE

SiOff ==
    /\ si_author = 0
    /\ si_channel = 0
    /\ si_messages = <<>>
    /\ si_box_lang = None
    /\ si_idx = 0
    /\ si_ret = <<>>
    /\ si_query = 0
    /\ si_resp = None
    /\ si_log = <<>>
    /\ si_deleted = {}
    /\ si_pc = "off"

\* The call, up to its first await: `messages = tuple(messages); ret = []`
\* and the first iteration's send, or the return of [] for no message
SiInit ==
    /\ si_author \in Authors
    /\ si_channel \in Channels
    /\ si_messages \in SiPageLists
    /\ si_box_lang \in {None, Some(PY)}
    /\ si_idx = IF si_messages = <<>> THEN 0 ELSE 1
    /\ si_ret = <<>>
    /\ si_query = 0
    /\ si_resp = None
    /\ si_log = <<>>
    /\ si_deleted = {}
    /\ si_pc = IF si_messages = <<>> THEN "done" ELSE "send_page"

\* `msg = await ctx.send(...)` returns: ret.append(msg), then the prompt's
\* send when pages remain, else the loop and the call end
SiPageSent ==
    /\ si_pc = "send_page"
    /\ si_log' = Append(si_log, [kind |-> "page",
                                 content |-> Rendered(si_messages[si_idx], si_box_lang)])
    /\ si_ret' = Append(si_ret, Len(si_log'))
    /\ LET n_remaining == Len(si_messages) - si_idx
       IN si_pc' = IF n_remaining > 0 THEN "send_query" ELSE "done"
    /\ UNCHANGED <<si_author, si_channel, si_messages, si_box_lang, si_idx,
                   si_query, si_resp, si_deleted>>
    /\ UNCHANGED notSi

\* `query = await ctx.send(...)` returns; the call waits for a message
SiQuerySent ==
    /\ si_pc = "send_query"
    /\ si_log' = Append(si_log, [kind |-> "query",
                                 content |-> Query(Len(si_messages) - si_idx)])
    /\ si_query' = Len(si_log')
    /\ si_pc' = "wait_for"
    /\ UNCHANGED <<si_author, si_channel, si_messages, si_box_lang, si_idx,
                   si_ret, si_resp, si_deleted>>
    /\ UNCHANGED notSi

\* ctx.send raises discord.HTTPException: nothing in the call catches it
SiSendRaises ==
    /\ si_pc \in {"send_page", "send_query"}
    /\ si_pc' = "raised"
    /\ UNCHANGED <<si_author, si_channel, si_messages, si_box_lang, si_idx,
                   si_ret, si_query, si_resp, si_log, si_deleted>>
    /\ UNCHANGED notSi

\* A message event while the call waits: it ends the wait when the check
\* accepts it and is ignored by this call otherwise
SiMessage ==
    /\ si_pc = "wait_for"
    /\ \E author \in Authors, channel \in Channels, content \in SiContents :
        IF predicate(author, channel, content)
        THEN /\ si_resp' = Some([author |-> author, channel |-> channel,
                                 content |-> content])
             /\ si_log' = Append(si_log, [kind |-> "resp", content |-> si_resp'[1]])
             /\ si_pc' = "delete_messages"
        ELSE UNCHANGED <<si_resp, si_log, si_pc>>
    /\ UNCHANGED <<si_author, si_channel, si_messages, si_box_lang, si_idx,
                   si_ret, si_query, si_deleted>>
    /\ UNCHANGED notSi

\* wait_for raises asyncio.TimeoutError
SiTimeout ==
    /\ si_pc = "wait_for"
    /\ si_log' = Append(si_log, [kind |-> "timeout", content |-> si_idx])
    /\ si_pc' = "delete_query_break"
    /\ UNCHANGED <<si_author, si_channel, si_messages, si_box_lang, si_idx,
                   si_ret, si_query, si_resp, si_deleted>>
    /\ UNCHANGED notSi

\* After the timeout: `await query.delete()` with HTTPException suppressed,
\* then `break` and `return ret`
SiDeleteQueryBreak ==
    /\ si_pc = "delete_query_break"
    /\ \E ok \in BOOLEAN :
        si_deleted' = IF ok THEN si_deleted \cup {si_query} ELSE si_deleted
    /\ si_pc' = "done"
    /\ UNCHANGED <<si_author, si_channel, si_messages, si_box_lang, si_idx,
                   si_ret, si_query, si_resp, si_log>>
    /\ UNCHANGED notSi

\* After `more`: `await ctx.channel.delete_messages((query, resp))`; when it
\* raises HTTPException or AttributeError the call falls back to query.delete()
SiDeleteMessages ==
    /\ si_pc = "delete_messages"
    /\ \/ /\ si_deleted' = si_deleted \cup {si_query, Len(si_log)}
          /\ si_idx' = si_idx + 1
          /\ si_pc' = "send_page"
       \/ /\ si_pc' = "delete_query"
          /\ UNCHANGED <<si_deleted, si_idx>>
    /\ UNCHANGED <<si_author, si_channel, si_messages, si_box_lang,
                   si_ret, si_query, si_resp, si_log>>
    /\ UNCHANGED notSi

\* The fallback `await query.delete()` with HTTPException suppressed, then
\* the next iteration's send
SiDeleteQuery ==
    /\ si_pc = "delete_query"
    /\ \E ok \in BOOLEAN :
        si_deleted' = IF ok THEN si_deleted \cup {si_query} ELSE si_deleted
    /\ si_idx' = si_idx + 1
    /\ si_pc' = "send_page"
    /\ UNCHANGED <<si_author, si_channel, si_messages, si_box_lang,
                   si_ret, si_query, si_resp, si_log>>
    /\ UNCHANGED notSi

SiNext ==
    \/ SiPageSent
    \/ SiQuerySent
    \/ SiSendRaises
    \/ SiMessage
    \/ SiTimeout
    \/ SiDeleteQueryBreak
    \/ SiDeleteMessages
    \/ SiDeleteQuery

----------------------------------------------------------------------------
(* The Dev cog: helpers *)

\* pagify's defaults and the shorten_by that get_pages passes
PAGE_LENGTH == 2000
GET_PAGES_SHORTEN_BY == 10

\* list(pagify(s, delims=ds, priority=prio, page_length=limit + shorten_by)):
\* the pages a complete run of the generator yields
RECURSIVE pagify(_, _, _, _)
pagify(s, ds, prio, limit) ==
    IF Len(s) > limit
    THEN LET closest_delim == ClosestDelim(s, ds, prio, limit)
             to_send == SliceTo(s, closest_delim)
         IN (IF Yielded(to_send) THEN <<to_send>> ELSE <<>>)
                \o pagify(SliceFrom(s, closest_delim), ds, prio, limit)
    ELSE IF Yielded(s) THEN <<s>> ELSE <<>>

\* Dev.get_pages
get_pages(m) == pagify(m, <<<<NL>>, <<SP>>>>, TRUE, PAGE_LENGTH - GET_PAGES_SHORTEN_BY)

\* str.strip(chars)
RECURSIVE lstrip_chars(_, _)
lstrip_chars(s, chars) ==
    IF s = <<>> THEN s
    ELSE IF Head(s) \in chars THEN lstrip_chars(Tail(s), chars) ELSE s

RECURSIVE rstrip_chars(_, _)
rstrip_chars(s, chars) ==
    IF s = <<>> THEN s
    ELSE IF s[Len(s)] \in chars THEN rstrip_chars(SubSeq(s, 1, Len(s) - 1), chars) ELSE s

strip_chars(s, chars) == rstrip_chars(lstrip_chars(s, chars), chars)

IsSuffix(p, s) == Len(p) <= Len(s) /\ SubSeq(s, Len(s) - Len(p) + 1, Len(s)) = p

\* START_CODE_BLOCK_RE.sub("", content): the pattern is anchored at the
\* start, ```py or ```python count only when whitespace follows
StartCodeBlockRemoved(content) ==
    LET python == FENCE \o <<"p", "y", "t", "h", "o", "n">>
        py == FENCE \o <<"p", "y">>
        FollowedBySpace(prefix) ==
            /\ IsPrefix(prefix, content)
            /\ Len(content) > Len(prefix)
            /\ content[Len(prefix) + 1] \in Whitespace
        n == IF FollowedBySpace(python) THEN Len(python)
             ELSE IF FollowedBySpace(py) THEN Len(py)
             ELSE IF IsPrefix(FENCE, content) THEN Len(FENCE)
             ELSE 0
    IN SubSeq(content, n + 1, Len(content))

\* Dev.cleanup_code
cleanup_code(content) ==
    IF IsPrefix(FENCE, content) /\ IsSuffix(FENCE, content)
    THEN SliceTo(StartCodeBlockRemoved(content), -3)
    ELSE strip_chars(content, {BACKTICK, SP, NL})

QUIT == <<"q", "u", "i", "t">>
EXIT == <<"e", "x", "i", "t">>
EXIT_CALL == <<"e", "x", "i", "t", "(", ")">>

\* `cleaned in ("quit", "exit", "exit()")`
IsQuit(cleaned) == cleaned \in {QUIT, EXIT, EXIT_CALL}

\* str(result) for the values of the model: None, or a string
str(value) == IF value = None THEN <<"N", "o", "n", "e">> ELSE value[1]

\* What the external evaluator can produce
DevToken == <<"K">>
ResultValues == {None, Some(<<"7">>), Some(DevToken)}
Stdouts == {<<>>, <<"o">>}
ErrorTexts == {<<"E", ":">> \o DevToken}

\* The messages that can arrive in a channel while a session waits
Inputs == {<<BACKTICK>> \o QUIT \o <<BACKTICK>>,
           FENCE \o EXIT_CALL \o FENCE,
           FENCE \o <<"p", "y", NL, "1">> \o FENCE,
           QUIT}

\* The commands are owner-only (commands.is_owner): every invocation's
\* ctx.author is the owner; other authors only write messages
Owner == 1
Owners == {Owner}

MaxTasks == 2
Procs == 1..MaxTasks

----------------------------------------------------------------------------
(* The Dev cog: command invocations *)

\* An invocation slot with no coroutine in it
Idle ==
    [cmd |-> "none",        \* the command the coroutine runs
     author |-> 0,          \* ctx.author.id
     channel |-> 0,         \* ctx.channel.id
     pc |-> "idle",         \* the await the coroutine is suspended at
     note |-> "none",       \* the notice a plain ctx.send is sending
     messages |-> <<>>,     \* send_interactive: tuple(messages)
     sanitized |-> FALSE,   \* history: the pages' text went through sanitize_output
     result |-> None,       \* debug, eval: `result` across `await tick(ctx)`
     printed |-> <<>>,      \* debug, eval: the text built so far
     env_ |-> None,         \* env["_"] of the code being run or of the session
     response |-> None,     \* repl: the message wait_for returned
     skipped |-> "none"]    \* history: the input the loop's last iteration skipped

DevOff ==
    /\ sessions = <<>>
    /\ last_result = None
    /\ procs = <<>>

\* Dev.__init__, and no command running
DevInit ==
    /\ sessions = <<>>
    /\ last_result = None
    /\ procs = [p \in Procs |-> Idle]

IdleProcs == {p \in Procs : procs[p].pc = "idle"}

\* A new invocation takes the first free slot
FreeSlot(p) == p \in IdleProcs /\ \A q \in IdleProcs : p <= q

\* The invocation record of a command that has just been dispatched
Invoked(cmd, author, channel) ==
    [Idle EXCEPT !.cmd = cmd, !.author = author, !.channel = channel]

\* The session loop back at `response = await ctx.bot.wait_for(...)`
Waiting(r) ==
    [r EXCEPT !.pc = "wait_for", !.messages = <<>>, !.sanitized = FALSE,
              !.result = None, !.printed = <<>>, !.response = None,
              !.skipped = "none"]

\* Where an invocation is once send_interactive has returned: debug and
\* eval end, the session loop waits for the next input
AfterDelivery(r) == IF r.cmd = "repl" THEN Waiting(r) ELSE Idle

\* `await send_interactive(ctx, <pages of m>, box_lang="py")` up to its first
\* await: with no page the call returns at once, without suspending.
\* `san` records whether m has passed through sanitize_output.
Deliver(r, m, san) ==
    IF get_pages(m) = <<>>
    THEN AfterDelivery(r)
    ELSE [r EXCEPT !.pc = "send_page", !.messages = get_pages(m), !.sanitized = san,
                   !.result = None, !.printed = <<>>, !.response = None]

\* env["_"] of the environment debug and eval build for their code: the
\* cog's last result, whichever channel's command stored it
get_environment == last_result

\* A debug or eval invocation whose code has run: its env is used no more
Evaluated(r) == [r EXCEPT !.env_ = None]

\* A delivery by the session loop that no `try` encloses (line 377)
Unguarded(r) == IF r.pc = "send_page" THEN [r EXCEPT !.pc = "send_syntax"] ELSE r

\* Dev.debug up to its first await: the compile fails with SyntaxError, or
\* the evaluation starts
InvokeDebug ==
    /\ \E p \in Procs, author \in Owners, channel \in Channels :
        /\ FreeSlot(p)
        /\ LET r == Invoked("debug", author, channel)
           IN \/ \E e \in ErrorTexts :
                    procs' = [procs EXCEPT ![p] =
                                Deliver(r, e, FALSE)]
              \/ procs' = [procs EXCEPT ![p] =
                    [r EXCEPT !.pc = "debug_eval", !.env_ = get_environment]]
    /\ UNCHANGED <<sessions, last_result>>
    /\ UNCHANGED notDev

\* `result = await self.maybe_await(eval(compiled, env))` raises: the
\* exception's text is paged and sent
DebugRaises(p, e) ==
    /\ procs[p].pc = "debug_eval"
    /\ procs' = [procs EXCEPT ![p] = Deliver(Evaluated(@), e, FALSE)]
    /\ UNCHANGED <<sessions, last_result>>
    /\ UNCHANGED notDev

\* ... or returns `result`: lines 253-254, up to `await tick(ctx)`
DebugResult(p, result) ==
    /\ procs[p].pc = "debug_eval"
    /\ last_result' = result
    /\ procs' = [procs EXCEPT ![p] =
            [Evaluated(@) EXCEPT !.pc = "debug_tick", !.result = result,
                      !.printed = sanitize_output(DevToken, str(result)),
                      !.sanitized = TRUE]]
    /\ UNCHANGED sessions
    /\ UNCHANGED notDev

DebugEvalDone ==
    \/ \E p \in Procs, e \in ErrorTexts : DebugRaises(p, e)
    \/ \E p \in Procs, result \in ResultValues : DebugResult(p, result)

\* `await tick(ctx)` returns (True or False), then the result is delivered
DebugTickDone ==
    /\ \E p \in Procs :
        /\ procs[p].pc = "debug_tick"
        /\ procs' = [procs EXCEPT ![p] = Deliver(@, @.printed, @.sanitized)]
    /\ UNCHANGED <<sessions, last_result>>
    /\ UNCHANGED notDev

\* Dev._eval up to its first await
InvokeEval ==
    /\ \E p \in Procs, author \in Owners, channel \in Channels :
        /\ FreeSlot(p)
        /\ LET r == Invoked("eval", author, channel)
           IN \/ \E e \in ErrorTexts :
                    procs' = [procs EXCEPT ![p] =
                                Deliver(r, e, FALSE)]
              \/ procs' = [procs EXCEPT ![p] =
                    [r EXCEPT !.pc = "eval_func", !.env_ = get_environment]]
    /\ UNCHANGED <<sessions, last_result>>
    /\ UNCHANGED notDev

\* `result = await func()` ends: with an exception (result stays None and
\* lines 304-311 run at once), or with a value (and `await tick(ctx)`)
EvalFuncDone ==
    /\ \E p \in Procs :
        /\ procs[p].pc = "eval_func"
        /\ \/ \E out \in Stdouts, e \in ErrorTexts :
                procs' = [procs EXCEPT ![p] =
                    Deliver(Evaluated(@), sanitize_output(DevToken, out \o e), TRUE)]
           \/ \E out \in Stdouts, v \in ResultValues :
                procs' = [procs EXCEPT ![p] =
                    [Evaluated(@) EXCEPT !.pc = "eval_tick",
                              !.result = v, !.printed = out]]
    /\ UNCHANGED <<sessions, last_result>>
    /\ UNCHANGED notDev

\* `await tick(ctx)` returns; lines 304-311
EvalTickDone ==
    /\ \E p \in Procs :
        /\ procs[p].pc = "eval_tick"
        /\ LET r == procs[p]
               m == IF r.result # None THEN r.printed \o str(r.result) ELSE r.printed
           IN /\ last_result' = IF r.result # None THEN r.result ELSE last_result
              /\ procs' = [procs EXCEPT ![p] =
                            Deliver(r, sanitize_output(DevToken, m), TRUE)]
    /\ UNCHANGED sessions
    /\ UNCHANGED notDev

\* send_interactive's `await ctx.send(...)` of a page returns.  With one
\* page nothing remains and the call returns; with more it would go on to
\* the prompt (no text of this model is long enough for a second page).
DeliverySent ==
    /\ \E p \in Procs :
        /\ procs[p].pc = "send_page"
        /\ procs' = [procs EXCEPT ![p] =
                IF Len(@.messages) - 1 > 0
                THEN [@ EXCEPT !.pc = "send_query"]
                ELSE AfterDelivery(@)]
    /\ UNCHANGED <<sessions, last_result>>
    /\ UNCHANGED notDev

\* ctx.send raises inside send_interactive called by debug or eval: nothing
\* catches it and the command ends
DeliveryRaises ==
    /\ \E p \in Procs :
        /\ procs[p].pc = "send_page"
        /\ procs[p].cmd \in {"debug", "eval"}
        /\ procs' = [procs EXCEPT ![p] = Idle]
    /\ UNCHANGED <<sessions, last_result>>
    /\ UNCHANGED notDev

\* The registry as a dictionary: d[k] = v, and del d[k]
DictSetAll(d, k, v) == [x \in (DOMAIN d) \cup {k} |-> v]
DictSet(d, k, v) == [x \in (DOMAIN d) \cup {k} |-> IF x = k THEN v ELSE d[x]]
DictDel(d, k) == [x \in (DOMAIN d) \ {k} |-> d[x]]

\* An open that finds no session whatever the registry holds
NoSessionSeen(channel) == FALSE

\* `ctx.channel.id in self.sessions`
SessionExists(channel) == channel \in DOMAIN sessions

\* An open that does not register its session before it suspends
SessionsUnregistered(channel) == sessions

\* `self.sessions[ctx.channel.id] = True` (line 337)
SessionsWithNew(channel) == DictSet(sessions, channel, TRUE)

\* Dev.repl up to its first await: the report of a session that exists,
\* or the new session and its announcement
InvokeRepl ==
    /\ \E p \in Procs, author \in Owners, channel \in Channels :
        /\ FreeSlot(p)
        /\ LET r == Invoked("repl", author, channel)
           IN IF SessionExists(channel)
              THEN /\ procs' = [procs EXCEPT ![p] =
                        [r EXCEPT !.pc = "send_report",
                                  !.note = IF sessions[channel] THEN "already_running"
                                           ELSE "resume_hint"]]
                   /\ UNCHANGED sessions
              ELSE /\ sessions' = SessionsWithNew(channel)
                   /\ procs' = [procs EXCEPT ![p] =
                        [r EXCEPT !.pc = "send_intro", !.note = "enter_code"]]
    /\ UNCHANGED last_result
    /\ UNCHANGED notDev

\* `await ctx.send("Enter code ...")` returns and the loop starts waiting,
\* or raises: the command ends before its loop, the registry entry stays
ReplIntroDone ==
    /\ \E p \in Procs :
        /\ procs[p].pc = "send_intro"
        /\ \/ procs' = [procs EXCEPT ![p] = Waiting([@ EXCEPT !.note = "none"])]
           \/ procs' = [procs EXCEPT ![p] = Idle]
    /\ UNCHANGED <<sessions, last_result>>
    /\ UNCHANGED notDev

\* The check the session loop hands to wait_for
repl_predicate(r, author, channel, content) ==
    /\ r.author = author
    /\ r.channel = channel
    /\ IsPrefix(<<BACKTICK>>, content)

\* A message event: every waiting loop whose check accepts it gets it as
\* the result of its wait_for (and runs on later)
Message ==
    /\ \E author \in Authors, channel \in Channels, content \in Inputs :
        LET accepts(p) ==
                /\ procs[p].pc = "wait_for"
                /\ repl_predicate(procs[p], author, channel, content)
        IN /\ \E p \in Procs : accepts(p)
           /\ procs' = [p \in Procs |->
                    IF accepts(p)
                    THEN [procs[p] EXCEPT !.pc = "got_message",
                                          !.response = Some(content),
                                          !.skipped = "none"]
                    ELSE procs[p]]
    /\ UNCHANGED <<sessions, last_result>>
    /\ UNCHANGED notDev

\* A loop that looks for the quit keywords before the pause flag
LoopBranchQuitFirst(running, cleaned) ==
    IF IsQuit(cleaned) THEN "quit"
    ELSE IF ~running THEN "continue"
    ELSE "code"

\* A loop that never looks at the pause flag
LoopBranchNoPause(running, cleaned) ==
    IF IsQuit(cleaned) THEN "quit" ELSE "code"

\* Lines 353-361: what the loop does with a received message
LoopBranch(running, cleaned) ==
    IF ~running THEN "continue"
    ELSE IF IsQuit(cleaned) THEN "quit"
    ELSE "code"

\* The loop resumes with the message (lines 353-378), up to its next await
ReplGotMessage ==
    /\ \E p \in Procs :
        /\ procs[p].pc = "got_message"
        /\ LET r == procs[p]
               cleaned == cleanup_code(r.response[1])
           IN IF ~SessionExists(r.channel)
              THEN \* self.sessions[ctx.channel.id] raises KeyError
                   procs' = [procs EXCEPT ![p] = Idle]
              ELSE LET branch == LoopBranch(sessions[r.channel], cleaned)
                   IN \/ /\ branch = "continue"
                         /\ procs' = [procs EXCEPT ![p] =
                                [Waiting(r) EXCEPT !.skipped =
                                    IF IsQuit(cleaned) THEN "quit" ELSE "code"]]
                      \/ /\ branch = "quit"
                         /\ procs' = [procs EXCEPT ![p] =
                                [r EXCEPT !.pc = "send_exiting", !.note = "exiting"]]
                      \/ /\ branch = "code"
                         \* neither compile succeeds: the syntax error's pages
                         \* are sent by line 377, outside any try
                         /\ \E e \in ErrorTexts :
                                procs' = [procs EXCEPT ![p] = Unguarded(Deliver(r, e, FALSE))]
                      \/ /\ branch = "code"
                         /\ procs' = [procs EXCEPT ![p] = [r EXCEPT !.pc = "repl_eval"]]
    /\ UNCHANGED <<sessions, last_result>>
    /\ UNCHANGED notDev

\* `await ctx.send("Exiting.")` returns: the session is deleted and the
\* command returns; or it raises and the command ends without the delete
ReplExitingDone ==
    /\ \E p \in Procs :
        /\ procs[p].pc = "send_exiting"
        /\ \/ /\ sessions' = DictDel(sessions, procs[p].channel)
              /\ procs' = [procs EXCEPT ![p] = Idle]
           \/ /\ procs' = [procs EXCEPT ![p] = Idle]
              /\ UNCHANGED sessions
    /\ UNCHANGED last_result
    /\ UNCHANGED notDev

\* Lines 385-406 when the evaluation raises: msg is the captured output and
\* the traceback, sanitized and handed to send_interactive
ReplRaises(p, value, e) ==
    /\ procs[p].pc = "repl_eval"
    /\ procs' = [procs EXCEPT ![p] =
            Deliver(@, sanitize_output(DevToken, value \o e), TRUE)]
    /\ UNCHANGED <<sessions, last_result>>
    /\ UNCHANGED notDev

\* Lines 385-406 when the evaluation returns `result` with `value` printed
ReplResult(p, value, result) ==
    /\ procs[p].pc = "repl_eval"
    /\ LET msg == IF result # None THEN value \o str(result)
                  ELSE IF value # <<>> THEN value
                  ELSE <<>>
       IN procs' = [procs EXCEPT ![p] =
            Deliver([@ EXCEPT !.env_ = IF result # None THEN result ELSE @],
                    sanitize_output(DevToken, msg), TRUE)]
    /\ UNCHANGED <<sessions, last_result>>
    /\ UNCHANGED notDev

ReplEvalDone ==
    \/ \E p \in Procs, value \in Stdouts, e \in ErrorTexts : ReplRaises(p, value, e)
    \/ \E p \in Procs, value \in Stdouts, result \in ResultValues :
            ReplResult(p, value, result)

\* The syntax error's page is sent and the loop goes on (`continue`), or
\* the send raises: nothing catches it and the command ends, the registry
\* entry stays
ReplSyntaxDone ==
    /\ \E p \in Procs :
        /\ procs[p].pc = "send_syntax"
        /\ \/ procs' = [procs EXCEPT ![p] = Waiting(@)]
           \/ procs' = [procs EXCEPT ![p] = Idle]
    /\ UNCHANGED <<sessions, last_result>>
    /\ UNCHANGED notDev

\* send_interactive raises discord.Forbidden in the loop: `pass`
ReplDeliveryForbidden ==
    /\ \E p \in Procs :
        /\ procs[p].pc = "send_page"
        /\ procs[p].cmd = "repl"
        /\ procs' = [procs EXCEPT ![p] = Waiting(@)]
    /\ UNCHANGED <<sessions, last_result>>
    /\ UNCHANGED notDev

\* send_interactive raises another discord.HTTPException in the loop: the
\* notice `Unexpected error: ...` is sent
ReplDeliveryHTTPException ==
    /\ \E p \in Procs :
        /\ procs[p].pc = "send_page"
        /\ procs[p].cmd = "repl"
        /\ procs' = [procs EXCEPT ![p] =
                [@ EXCEPT !.pc = "send_notice", !.note = "unexpected_error",
                          !.messages = <<>>, !.sanitized = FALSE]]
    /\ UNCHANGED <<sessions, last_result>>
    /\ UNCHANGED notDev

\* The notice's `await ctx.send(...)` returns and the loop goes on, or
\* raises: nothing catches it and the command ends, the registry entry stays
ReplNoticeDone ==
    /\ \E p \in Procs :
        /\ procs[p].pc = "send_notice"
        /\ \/ procs' = [procs EXCEPT ![p] = Waiting([@ EXCEPT !.note = "none"])]
           \/ procs' = [procs EXCEPT ![p] = Idle]
    /\ UNCHANGED <<sessions, last_result>>
    /\ UNCHANGED notDev

Toggles == {None, Some(TRUE), Some(FALSE)}

\* Dev.pause, invoked with `toggle` in slot p, up to its await
Pause(p, author, channel, toggle) ==
    /\ FreeSlot(p)
    /\ LET r == [Invoked("pause", author, channel) EXCEPT !.pc = "send_report"]
       IN IF ~SessionExists(channel)
          THEN /\ procs' = [procs EXCEPT ![p] = [r EXCEPT !.note = "no_session"]]
               /\ UNCHANGED sessions
          ELSE LET t == IF toggle = None THEN ~sessions[channel] ELSE toggle[1]
               IN /\ sessions' = DictSet(sessions, channel, t)
                  /\ procs' = [procs EXCEPT ![p] =
                        [r EXCEPT !.note = IF t THEN "resumed" ELSE "paused"]]
    /\ UNCHANGED last_result
    /\ UNCHANGED notDev

InvokePause ==
    \E p \in Procs, author \in Owners, channel \in Channels, toggle \in Toggles :
        Pause(p, author, channel, toggle)

\* The `await ctx.send(...)` of a report returns or raises: either way the
\* command ends
ReportDone ==
    /\ \E p \in Procs :
        /\ procs[p].pc = "send_report"
        /\ procs' = [procs EXCEPT ![p] = Idle]
    /\ UNCHANGED <<sessions, last_result>>
    /\ UNCHANGED notDev

----------------------------------------------------------------------------
(* Dev.maybe_await *)

\* The deepest nesting of awaitables handed to maybe_await
MaxDepth == 4
AwaitableKinds == {"coroutine", "future"}
PlainValues == {"1", "None"}

\* A value: `base` wrapped in as many awaitables as `layers` is long, the
\* outermost first
Values ==
    {[layers |-> l, base |-> b] : l \in SeqsUpTo(AwaitableKinds, MaxDepth),
                                  b \in PlainValues}

\* A check that takes no value for an awaitable
NeverAwaitable(v) == FALSE

\* inspect.isawaitable(v)
isawaitable(v) == v.layers # <<>>

\* The value of `await v` for an awaitable v
Awaited(v) == [v EXCEPT !.layers = Tail(@)]

\* range(2)
MaybeAwaitRange == 2

MaOff ==
    /\ ma_arg = <<>>
    /\ ma_coro = <<>>
    /\ ma_i = 0
    /\ ma_awaits = 0
    /\ ma_pc = "off"

MaybeAwaitInit ==
    /\ ma_arg \in Values
    /\ ma_coro = ma_arg
    /\ ma_i = 0
    /\ ma_awaits = 0
    /\ ma_pc = "test"

\* An iteration with an awaitable `coro`: the call suspends in `await coro`
MaybeAwaitAwaits ==
    /\ ma_pc = "test"
    /\ ma_i < MaybeAwaitRange
    /\ isawaitable(ma_coro)
    /\ ma_pc' = "await"
    /\ UNCHANGED <<ma_arg, ma_coro, ma_i, ma_awaits>>
    /\ UNCHANGED notMa

\* `coro = await coro` completes and the next iteration starts
MaybeAwaitResumes ==
    /\ ma_pc = "await"
    /\ ma_coro' = Awaited(ma_coro)
    /\ ma_awaits' = ma_awaits + 1
    /\ ma_i' = ma_i + 1
    /\ ma_pc' = "test"
    /\ UNCHANGED ma_arg
    /\ UNCHANGED notMa

\* `return coro`: from the else branch (line 156), or after the loop (157)
MaybeAwaitReturns ==
    /\ ma_pc = "test"
    /\ \/ ma_i < MaybeAwaitRange /\ ~isawaitable(ma_coro)
       \/ ma_i = MaybeAwaitRange
    /\ ma_pc' = "done"
    /\ UNCHANGED <<ma_arg, ma_coro, ma_i, ma_awaits>>
    /\ UNCHANGED notMa

MaybeAwaitNext == MaybeAwaitAwaits \/ MaybeAwaitResumes \/ MaybeAwaitReturns

----------------------------------------------------------------------------
(* Specifications *)

InitPagify == PagifyInit /\ SanOff /\ SiOff /\ DevOff /\ MaOff

SpecPagify == InitPagify /\ [][PagifyNext]_vars

\* The generator is run to its end: list(pagify(...)) keeps calling next()
SpecPagifyLive == SpecPagify /\ WF_vars(PagifyNext)

InitSanitize == SanitizeInit /\ PgOff /\ SiOff /\ DevOff /\ MaOff

SpecSanitize == InitSanitize /\ [][SanitizeCall]_vars

InitSend == SiInit /\ PgOff /\ SanOff /\ DevOff /\ MaOff

SpecSend == InitSend /\ [][SiNext]_vars

InitMaybeAwait == MaybeAwaitInit /\ PgOff /\ SanOff /\ SiOff /\ DevOff

SpecMaybeAwait == InitMaybeAwait /\ [][MaybeAwaitNext]_vars

Init == DevInit /\ PgOff /\ SanOff /\ SiOff /\ MaOff

Next ==
    \/ InvokeDebug
    \/ DebugEvalDone
    \/ DebugTickDone
    \/ InvokeEval
    \/ EvalFuncDone
    \/ EvalTickDone
    \/ DeliverySent
    \/ DeliveryRaises
    \/ InvokeRepl
    \/ ReplIntroDone
    \/ Message
    \/ ReplGotMessage
    \/ ReplExitingDone
    \/ ReplEvalDone
    \/ ReplSyntaxDone
    \/ ReplDeliveryForbidden
    \/ ReplDeliveryHTTPException
    \/ ReplNoticeDone
    \/ InvokePause
    \/ ReportDone

Spec == Init /\ [][Next]_vars

----------------------------------------------------------------------------
(* Claims about pagify, under SpecPagify *)

IsBlank(s) == \A i \in 1..Len(s) : s[i] \in Whitespace

RECURSIVE Concat(_)
Concat(ss) == IF ss = <<>> THEN <<>> ELSE Head(ss) \o Concat(Tail(ss))

NonBlank(s) == ~IsBlank(s)

\* C1: when the effective limit (page_length - shorten_by) is at least 1,
\* every page yielded by pagify has raw length at most the limit and is
\* non-empty after whitespace trimming.
C1_PagesBounded ==
    page_length >= 1 =>
        \A i \in 1..Len(pages) :
            /\ Len(pages[i]) <= page_length
            /\ Len(pages[i]) >= 1
            /\ ~IsBlank(pages[i])

\* A finished run with limit >= 1 that made a hard cutoff at the limit,
\* yielded several pages and dropped a blank slice.
C1_Witness ==
    /\ pg_pc = "done"
    /\ page_length >= 1
    /\ Len(pages) >= 2
    /\ Len(slices) > Len(pages)
    /\ \E i \in 1..Len(pages) : Len(pages[i]) = page_length

\* C10: the slices cut off the text are consecutive and in left-to-right
\* order (their concatenation, followed by the text not yet consumed, is T),
\* the yielded pages are these slices in the same order without the dropped
\* ones, and a slice is dropped only when it is wholly whitespace.
C10_PagesAreSlices ==
    /\ Concat(slices) \o (IF pg_pc = "done" THEN <<>> ELSE in_text) = text
    /\ pages = SelectSeq(slices, NonBlank)

\* A finished run that cut three or more slices and dropped one of them.
C10_Witness ==
    /\ pg_pc = "done"
    /\ Len(slices) >= 3
    /\ Len(pages) >= 1
    /\ Len(pages) < Len(slices)

\* The call pagify("line1\nline2\nline3", delims=["\n"], priority=True)
\* with limit 12 has run to its end
ThreeLinesDone ==
    /\ text = ThreeLines
    /\ delims = <<<<NL>>>>
    /\ priority
    /\ page_length = 12
    /\ pg_pc = "done"

\* C11, as stated: that call yields exactly "line1\n", "line2\n", "line3":
\* every page but the last ends with its newline and none starts with one.
C11_OneLinePerPage ==
    ThreeLinesDone =>
        pages = <<Line("1") \o <<NL>>, Line("2") \o <<NL>>, Line("3")>>

\* C11, amended: that call yields exactly "line1\nline2", "\nline3": the one
\* split falls at the last newline before the limit (index 11) and the
\* newline leads the second page.
C11_SplitBeforeLastNewline ==
    ThreeLinesDone =>
        pages = <<Line("1") \o <<NL>> \o Line("2"), <<NL>> \o Line("3")>>

\* The three-line call has finished with two pages.
C11_Witness == ThreeLinesDone /\ Len(pages) = 2

\* The loop is about to cut the remaining text
Splitting ==
    /\ pg_pc = "loop"
    /\ Len(in_text) > page_length
    /\ ~PagifyRaises(delims, priority)

\* The index at which the loop is about to cut
SplitIndex == ClosestDelim(in_text, delims, priority, page_length)

\* The cut the loop is about to make leaves less text than there is
SplitConsumes == Len(SliceFrom(in_text, SplitIndex)) < Len(in_text)

\* C12: with an effective limit >= 1 every split is at an index >= 1 and
\* shortens the remaining text, every run of pagify ends (with its last
\* page, or with the ValueError of max() for no delimiter), and the pages of
\* a finished run are a function of the arguments alone.
C12_Terminates ==
    /\ []((page_length >= 1 /\ Splitting) => (SplitIndex >= 1 /\ SplitConsumes))
    /\ ((page_length >= 1 /\ pg_pc = "loop") ~> (pg_pc \in {"done", "raised"}))
    /\ []((page_length >= 1 /\ pg_pc = "done") =>
            pages = pagify(text, delims, priority, page_length))

\* A run with limit >= 1 over a text that starts with a delimiter has
\* ended after three or more iterations.
C12_Witness ==
    /\ pg_pc = "done"
    /\ page_length >= 1
    /\ Len(slices) >= 3
    /\ delims # <<>>
    /\ text # <<>>
    /\ Head(text) = Head(Head(delims))

\* C13, as stated: with an effective limit < 1 and a non-empty text pagify
\* never makes a split that consumes no text (the call is rejected or the
\* limit clamped to 1).
C13_LowLimitConsumes ==
    (page_length < 1 /\ text # <<>> /\ Splitting) => SplitConsumes

\* A delimiter's 0-based occurrences in s that lie within [1, limit)
Occurrences(s, d, limit) ==
    {i \in 1..(limit - 1) : i + Len(d) <= limit /\ SubSeq(s, i + 1, i + Len(d)) = d}

\* The split point of the stated rule
StatedSplit(s, ds, prio, limit) ==
    LET found == {k \in 1..Len(ds) : Occurrences(s, ds[k], limit) # {}}
        first == CHOOSE k \in found : \A j \in found : k <= j
    IN IF found = {} THEN limit
       ELSE IF prio THEN SetMax(Occurrences(s, ds[first], limit))
       ELSE SetMax({SetMax(Occurrences(s, ds[k], limit)) : k \in found})

\* C14, as stated: while the remaining text is longer than the limit (>= 1),
\* the iteration cuts at the stated split point (priority: last occurrence
\* in [1, limit) of the first delimiter that has one; no priority: the
\* largest last occurrence; no occurrence of any delimiter: the limit), the
\* part before it is the slice and the rest, delimiter first, remains.
C14_SplitPoint ==
    [][(pg_pc = "loop" /\ page_length >= 1 /\ Len(in_text) > page_length) =>
          LET k == StatedSplit(in_text, delims, priority, page_length)
          IN /\ pg_pc' = "loop"
             /\ slices' = Append(slices, SubSeq(in_text, 1, k))
             /\ in_text' = SubSeq(in_text, k + 1, Len(in_text))
    ]_vars

----------------------------------------------------------------------------
(* Claims about sanitize_output, under SpecSanitize *)

\* Whether sub occurs in s, letter case ignored
OccursIgnoringCase(sub, s) ==
    \E i \in 0..(Len(s) - Len(sub)) : lower(SubSeq(s, i + 1, i + Len(sub))) = lower(sub)

\* s with every occurrence of secret, in any letter case, replaced by the
\* placeholder (leftmost first, non-overlapping)
RECURSIVE ExpungeAll(_, _)
ExpungeAll(secret, s) ==
    IF s = <<>> THEN <<>>
    ELSE IF Len(secret) <= Len(s) /\ lower(SubSeq(s, 1, Len(secret))) = lower(secret)
         THEN EXPUNGED \o ExpungeAll(secret, SubSeq(s, Len(secret) + 1, Len(s)))
         ELSE <<Head(s)>> \o ExpungeAll(secret, Tail(s))

\* C8: the result of sanitize holds no occurrence of the secret in any letter
\* case, and is the output with every such occurrence replaced by
\* `[EXPUNGED]` and nothing else changed.
C8_EveryOccurrenceExpunged ==
    san_pc = "done" =>
        /\ ~OccursIgnoringCase(token, san_out)
        /\ san_out = ExpungeAll(token, input_)

----------------------------------------------------------------------------
(* Claims about send_interactive, under SpecSend *)

PagePositions == {j \in 1..Len(si_log) : si_log[j].kind = "page"}

\* The number of pages sent up to position j of the log
PagesSentBy(j) == Cardinality({k \in PagePositions : k <= j})

\* A message of the invoking author in the invoking channel whose content
\* is `more` in some letter case
IsMoreOfCaller(m) ==
    /\ m.author = si_author
    /\ m.channel = si_channel
    /\ Len(m.content) = 4
    /\ m.content[1] \in {"m", "M"}
    /\ m.content[2] \in {"o", "O"}
    /\ m.content[3] \in {"r", "R"}
    /\ m.content[4] \in {"e", "E"}

\* C2: the pages are sent in their original order; every page after the
\* first directly follows a `more` reply of the same author in the same
\* channel that ended the wait after the previous page's prompt; once a wait
\* has timed out after page k, exactly the first k pages have been sent,
\* nothing more is sent and the call returns normally; the returned handles
\* are those of the pages sent, and a call that returns without a timeout
\* has sent every page.
C2_GatedDelivery ==
    /\ \A j \in PagePositions :
        /\ PagesSentBy(j) <= Len(si_messages)
        /\ si_log[j].content = Rendered(si_messages[PagesSentBy(j)], si_box_lang)
        /\ j > 1 =>
            /\ j >= 4
            /\ si_log[j - 1].kind = "resp"
            /\ IsMoreOfCaller(si_log[j - 1].content)
            /\ si_log[j - 2].kind = "query"
            /\ si_log[j - 3].kind = "page"
    /\ \A j \in 1..Len(si_log) :
        si_log[j].kind = "timeout" =>
            /\ j = Len(si_log)
            /\ Cardinality(PagePositions) = si_log[j].content
            /\ si_pc \in {"delete_query_break", "done"}
    /\ si_pc = "done" =>
        /\ Len(si_ret) = Cardinality(PagePositions)
        /\ \A i \in 1..Len(si_ret) :
            si_ret[i] \in PagePositions /\ PagesSentBy(si_ret[i]) = i
        /\ (\A j \in 1..Len(si_log) : si_log[j].kind # "timeout")
              => Len(si_ret) = Len(si_messages)

\* A call with 3 pages that has returned after one `MORE` reply and a
\* timeout of the second wait: exactly 2 pages were sent.
C2_Witness ==
    /\ si_pc = "done"
    /\ Len(si_messages) = 3
    /\ Len(si_ret) = 2
    /\ \E j \in 1..Len(si_log) : si_log[j].kind = "timeout" /\ si_log[j].content = 2
    /\ \E j \in 1..Len(si_log) :
        si_log[j].kind = "resp" /\ si_log[j].content.content = <<"M", "O", "R", "E">>

----------------------------------------------------------------------------
(* Claims about the commands and the session registry, under Spec *)

Running(c) == c \in DOMAIN sessions /\ sessions[c] = TRUE
Paused(c) == c \in DOMAIN sessions /\ sessions[c] = FALSE
Absent(c) == c \notin DOMAIN sessions

\* An invocation of repl that got past the check of line 322: it
\* announces, runs or leaves the session loop
IsLoop(r) == r.cmd = "repl" /\ r.pc # "send_report"

LoopsOf(c) == {p \in Procs : IsLoop(procs[p]) /\ procs[p].channel = c}

\* The step in which slot p starts running command cmd
Starts(p, cmd) == procs[p].pc = "idle" /\ procs'[p].cmd = cmd

\* C3: an open on an Absent channel makes it Running and touches no other
\* channel; an open on a Running or Paused channel leaves the registry as it
\* was, only sends `already running` resp. the resume hint, and ends after
\* that send without ever becoming a loop.
C3_Open ==
    [][\A p \in Procs :
        /\ Starts(p, "repl") =>
             LET c == procs'[p].channel
             IN IF Absent(c)
                THEN /\ DOMAIN sessions' = (DOMAIN sessions) \cup {c}
                     /\ sessions'[c] = TRUE
                     /\ \A d \in DOMAIN sessions : sessions'[d] = sessions[d]
                     /\ procs'[p].pc = "send_intro"
                ELSE /\ sessions' = sessions
                     /\ procs'[p].pc = "send_report"
                     /\ procs'[p].note = IF Running(c) THEN "already_running"
                                         ELSE "resume_hint"
        /\ (procs[p].cmd = "repl" /\ procs[p].pc = "send_report"
                /\ procs'[p] # procs[p]) =>
             /\ procs'[p] = Idle
             /\ sessions' = sessions
    ]_vars

\* An open is reporting the resume hint on a channel whose paused session
\* loop is alive in another coroutine.
C3_Witness ==
    \E p, q \in Procs :
        /\ procs[p].cmd = "repl"
        /\ procs[p].pc = "send_report"
        /\ procs[p].note = "resume_hint"
        /\ IsLoop(procs[q])
        /\ procs[q].channel = procs[p].channel
        /\ Paused(procs[p].channel)

\* The message a loop is resuming with is a quit keyword
GotQuit(r) == r.pc = "got_message" /\ IsQuit(cleanup_code(r.response[1]))

\* C4, as stated: whenever the loop handles an input whose cleaned content
\* is `quit`, `exit` or `exit()`, whether the session is Running or Paused,
\* it takes the exit path (announces `Exiting.`, removes the session, ends).
C4_QuitAlwaysWins ==
    [][\A p \in Procs :
        (GotQuit(procs[p]) /\ procs'[p] # procs[p]) =>
            procs'[p].pc = "send_exiting"
    ]_vars

\* C4, amended: the pause flag is looked at first.  A quit keyword handled
\* while the session is Paused is skipped (the loop waits again, the session
\* stays registered and Paused); handled while Running it takes the exit
\* path, which ends the loop and removes the session when `Exiting.` is
\* sent; and a session leaves the registry by no other step.
C4_PauseBeforeQuit ==
    [][/\ \A p \in Procs :
            /\ (GotQuit(procs[p]) /\ procs'[p] # procs[p]) =>
                 /\ sessions' = sessions
                 /\ IF Paused(procs[p].channel)
                    THEN procs'[p].pc = "wait_for" /\ procs'[p].env_ = procs[p].env_
                    ELSE procs'[p].pc = "send_exiting"
            /\ (procs[p].pc = "send_exiting" /\ procs'[p] # procs[p]) =>
                 /\ procs'[p] = Idle
                 /\ \/ sessions' = sessions
                    \/ sessions' = DictDel(sessions, procs[p].channel)
       /\ \A c \in Channels :
            (~Absent(c) /\ Absent(c)') =>
                \E p \in Procs :
                    /\ procs[p].pc = "send_exiting"
                    /\ procs[p].channel = c
                    /\ procs'[p] = Idle
    ]_vars

\* A loop waits again after skipping a quit keyword in a Paused session.
C4_Witness ==
    \E p \in Procs :
        /\ procs[p].pc = "wait_for"
        /\ procs[p].skipped = "quit"
        /\ Paused(procs[p].channel)

\* C5, as stated: pause on a channel without session reports it and creates
\* none; with no argument it toggles; with an argument the result is fixed
\* by the argument (`pause true`: Paused, `pause false`: Running); the
\* announcement names the resulting state.
C5_PauseSetsArgument ==
    [][\A p \in Procs, c \in Channels, toggle \in Toggles :
        Pause(p, Owner, c, toggle) =>
            IF Absent(c)
            THEN sessions' = sessions /\ procs'[p].note = "no_session"
            ELSE /\ DOMAIN sessions' = DOMAIN sessions
                 /\ \A d \in DOMAIN sessions : d # c => sessions'[d] = sessions[d]
                 /\ toggle = None => (Paused(c)' <=> Running(c))
                 /\ toggle = Some(TRUE) => Paused(c)'
                 /\ toggle = Some(FALSE) => Running(c)'
                 /\ procs'[p].note = IF Paused(c)' THEN "paused" ELSE "resumed"
    ]_vars

\* C6: at any time at most one invocation per channel id is past the Absent
\* check (announcing, running or leaving its loop), and every such
\* invocation has its channel in the registry.
C6_OneLoopPerChannel ==
    \A c \in Channels :
        /\ Cardinality(LoopsOf(c)) <= 1
        /\ LoopsOf(c) # {} => ~Absent(c)

\* A second open on a channel is reporting `already running` while the
\* first open's loop waits for input.
C6_Witness ==
    \E p, q \in Procs :
        /\ procs[p].cmd = "repl"
        /\ procs[p].pc = "send_report"
        /\ procs[p].note = "already_running"
        /\ procs[q].cmd = "repl"
        /\ procs[q].pc = "wait_for"
        /\ procs[q].channel = procs[p].channel

\* C7, as stated: in every mode the last-result slot (self._last_result for
\* debug and eval, env["_"] for a session) changes only in a step in which an
\* evaluation has succeeded with a result that is not None, and then holds
\* that result.
C7_LastResultOnlyNonEmpty ==
    [][/\ last_result' # last_result =>
            \E p \in Procs, v \in ResultValues \ {None} :
                /\ last_result' = v
                /\ \/ DebugResult(p, v)
                   \/ procs[p].pc = "eval_tick" /\ procs[p].result = v
                                                /\ procs'[p] # procs[p]
       /\ \A p \in Procs :
            (IsLoop(procs[p]) /\ IsLoop(procs'[p])
                /\ procs'[p].env_ # procs[p].env_) =>
                \E value \in Stdouts, v \in ResultValues \ {None} :
                    ReplResult(p, value, v) /\ procs'[p].env_ = v
    ]_vars

\* C9, as stated: every text whose pages are being delivered by debug, eval
\* or the session loop has passed through sanitize_output.
C9_AllOutputSanitized ==
    \A p \in Procs :
        procs[p].pc \in {"send_page", "send_syntax"} => procs[p].sanitized

\* The message a loop is resuming with is code other than a quit keyword
GotCode(r) == r.pc = "got_message" /\ ~IsQuit(cleanup_code(r.response[1]))

\* The awaits of the session loop at which something is being sent
Sending == {"send_page", "send_syntax", "send_query", "send_notice", "send_exiting"}

\* C15: when the loop handles a code-like input other than a quit keyword
\* while the session is Paused, it goes straight back to waiting: nothing is
\* compiled, evaluated or sent, env["_"], the registry and the cog's last
\* result stay as they were.
C15_PausedInputDiscarded ==
    [][\A p \in Procs :
        (GotCode(procs[p]) /\ Paused(procs[p].channel) /\ procs'[p] # procs[p]) =>
            /\ procs'[p].pc = "wait_for"
            /\ procs'[p].messages = <<>>
            /\ procs'[p].env_ = procs[p].env_
            /\ sessions' = sessions
            /\ last_result' = last_result
    ]_vars

\* A loop waits again after skipping code in a Paused session.
C15_Witness ==
    \E p \in Procs :
        /\ procs[p].pc = "wait_for"
        /\ procs[p].skipped = "code"
        /\ Paused(procs[p].channel)

\* C16, as stated: a send failure during the loop's result delivery, and
\* a failure to send the notice about it, never ends the loop nor changes
\* the session: the step out of the delivery leads to the one notice or back
\* to waiting, and the step out of the notice leads back to waiting.
C16_SendFailureKeepsLoop ==
    [][\A p \in Procs :
        (procs[p].cmd = "repl" /\ procs'[p] # procs[p]) =>
            /\ procs[p].pc = "send_page" =>
                    /\ procs'[p].pc \in {"wait_for", "send_notice", "send_query"}
                    /\ sessions' = sessions
            /\ procs[p].pc = "send_notice" =>
                    /\ procs'[p].pc = "wait_for"
                    /\ sessions' = sessions
    ]_vars

\* The state of channel c's session: "absent", "running" or "paused"
SessionState(c) ==
    IF Absent(c) THEN "absent" ELSE IF sessions[c] THEN "running" ELSE "paused"

\* The step is one of a command invocation in channel a (dispatched in this
\* step, or resumed at its await)
StepIn(a) ==
    \E p \in Procs :
        /\ procs'[p] # procs[p]
        /\ \/ procs[p].pc # "idle" /\ procs[p].channel = a
           \/ procs[p].pc = "idle" /\ procs'[p].channel = a

\* C17, as stated: a step of a debug, eval, repl or pause invocation in
\* channel a leaves, for every other channel b, the session state of b and
\* the last result an evaluation started in b would find in `_` unchanged.
C17_NothingShared ==
    [][\A a \in Channels : \A b \in Channels \ {a} :
        StepIn(a) =>
            /\ SessionState(b)' = SessionState(b)
            /\ get_environment' = get_environment
    ]_vars

\* C17, amended: a step of an invocation in channel a leaves the session
\* state of every other channel b unchanged, and env["_"] of a session is
\* changed by that session's own loop only; but the last result that debug
\* and eval find in `_` is one value for all channels: an evaluation
\* started in any channel observes the result last stored by a debug or
\* eval anywhere.
C17_OnlyLastResultShared ==
    [][/\ \A a \in Channels : \A b \in Channels \ {a} :
            StepIn(a) =>
                /\ SessionState(b)' = SessionState(b)
                /\ \A q \in Procs :
                      (IsLoop(procs[q]) /\ procs[q].channel = b) =>
                            procs'[q] = procs[q]
       /\ \A p \in Procs :
            (Starts(p, "debug") \/ Starts(p, "eval")) =>
                (procs'[p].pc \in {"debug_eval", "eval_func"} =>
                    procs'[p].env_ = last_result)
    ]_vars

\* An evaluation started in one channel has in `_` the result that a debug
\* in the other channel has just stored, while a session is open there.
C17_Witness ==
    \E p, q \in Procs :
        /\ procs[p].pc \in {"debug_eval", "eval_func"}
        /\ procs[q].cmd = "debug"
        /\ procs[q].pc = "debug_tick"
        /\ procs[q].channel # procs[p].channel
        /\ procs[q].result # None
        /\ procs[p].env_ = procs[q].result

\* C19, as stated: a channel id is in the registry exactly when one session
\* loop is live for it.
C19_EntryIffLoop ==
    \A c \in Channels : ~Absent(c) <=> Cardinality(LoopsOf(c)) = 1

\* C20, as stated: while a session is and stays Paused, its loop neither
\* starts delivering an evaluation result nor changes env["_"].
C20_PausedMeansQuiet ==
    [][\A p \in Procs :
        (IsLoop(procs[p]) /\ Paused(procs[p].channel) /\ Paused(procs[p].channel)') =>
            /\ procs'[p].env_ = procs[p].env_
            /\ (procs'[p].pc \in Sending /\ procs'[p].pc # procs[p].pc) =>
                    procs'[p].pc \in {"send_notice", "send_exiting"}
    ]_vars

----------------------------------------------------------------------------
(* Claims about maybe_await, under SpecMaybeAwait *)

Min(a, b) == IF a <= b THEN a ELSE b

\* C18: for an argument wrapped in d awaitables, a call of maybe_await that
\* has returned has awaited exactly min(d, 2) times and returns the value
\* with the innermost max(d - 2, 0) awaitables still around it; a value that
\* is no awaitable is returned as it is, with no await.
C18_TwoResolutions ==
    ma_pc = "done" =>
        LET d == Len(ma_arg.layers)
            n == Min(d, 2)
        IN /\ ma_awaits = n
           /\ ma_coro = [layers |-> SubSeq(ma_arg.layers, n + 1, d),
                         base |-> ma_arg.base]
           /\ Len(ma_coro.layers) = d - n
           /\ d = 0 => ma_coro = ma_arg

\* A call with an argument three or more awaitables deep has returned, its
\* value still an awaitable.
C18_Witness ==
    /\ ma_pc = "done"
    /\ Len(ma_arg.layers) >= 3
    /\ isawaitable(ma_coro)

====
